---- MODULE Spec2Model ----
(***************************************************************************)
(* Model of the two config generators of Listening_Test:                   *)
(*   generate_configs.py      (GitHub raw URLs, *.wav only)                *)
(*   generate_configs_aws.py  (S3 URLs, *.wav then *.mp3)                  *)
(*                                                                         *)
(* Strings the program builds, matches, sorts or rewrites character by     *)
(* character (trial names, file names) are sequences of one-character      *)
(* strings.  Strings it only concatenates or compares whole (URLs, paths,  *)
(* printed lines) are TLA+ strings, joined with \o.  Printed lines are kept  *)
(* without their leading check-mark and cross glyphs.                      *)
(*                                                                         *)
(* A run is followed statement by statement at the granularity of one loop *)
(* iteration.  open(path, 'w') and json.dump may fail with an OSError,     *)
(* which no code of either script catches.  The disk holds at most         *)
(* MaxFolders of the folders of CandidateFolders, each with at most        *)
(* MaxFiles of the names of FileNames, with or without the config.json     *)
(* and trials_list.json an earlier run left.                               *)
(***************************************************************************)
EXTENDS FiniteSets, Integers, Sequences, TLC

\* ------------------------------------------------------------------ bounds
\* at most this many trial folders exist under BASE_PATH
MaxFolders == 2
\* at most this many files (other than config.json) lie in a trial folder
MaxFiles == 2
\* the script is run at most this many times in succession
MaxRuns == 2

\* --------------------------------------------------------- string helpers
RECURSIVE ToStr(_)
\* the text of a character sequence, as an f-string renders it
ToStr(s) == IF s = <<>> THEN "" ELSE Head(s) \o ToStr(Tail(s))

\* the characters of the model's names, in code point order
CharOrder ==
  << " ", ".", "1", "2", "3", "4", "F", "G", "M", "_", "a", "b", "c", "d",
     "e", "f", "g", "i", "j", "l", "m", "n", "o", "p", "r", "s", "v", "w" >>

Code(c) == CHOOSE k \in 1..Len(CharOrder) : CharOrder[k] = c

RECURSIVE StrLess(_, _)
\* Python's a < b on str: first differing code point, a proper prefix is less
StrLess(a, b) ==
  IF b = <<>> THEN FALSE
  ELSE IF a = <<>> THEN TRUE
  ELSE IF Head(a) = Head(b) THEN StrLess(Tail(a), Tail(b))
  ELSE Code(Head(a)) < Code(Head(b))

RECURSIVE sorted(_)
\* sorted(iterable) of distinct names: ascending
sorted(S) ==
  IF S = {} THEN <<>>
  ELSE LET m == CHOOSE x \in S : \A y \in S \ {x} : StrLess(x, y)
       IN  <<m>> \o sorted(S \ {m})

EndsWith(name, suffix) ==
  /\ Len(name) >= Len(suffix)
  /\ SubSeq(name, Len(name) - Len(suffix) + 1, Len(name)) = suffix

\* a pattern that lost its extension: "*" matches every name
FnMatchAnyName(name, pattern) == Head(pattern) = "*"

\* fnmatch of a name against a pattern "*<literal>"
FnMatch(name, pattern) == Head(pattern) = "*" /\ EndsWith(name, Tail(pattern))

\* replace that stops after the first occurrence, as replace(old, new, 1)
ReplaceFirstOnly(s, old, new) ==
  IF \E k \in 1..Len(s) : s[k] = old
  THEN LET first == CHOOSE k \in 1..Len(s) : s[k] = old /\ \A m \in 1..(k - 1) : s[m] # old
       IN  [s EXCEPT ![first] = new]
  ELSE s

RECURSIVE replace(_, _, _)
\* str.replace(old, new) for one-character old and new
replace(s, old, new) ==
  IF s = <<>> THEN <<>>
  ELSE <<IF Head(s) = old THEN new ELSE Head(s)>> \o replace(Tail(s), old, new)

\* --------------------------------------------------- program configuration
GITHUB_USER == "yttehs"
GITHUB_REPO == "Listening_Test"
GITHUB_BRANCH == "main"
S3_BUCKET_NAME == "listening-test-audio-files"
S3_REGION == "us-west-1"
S3_BASE_URL == "https://" \o S3_BUCKET_NAME \o ".s3." \o S3_REGION \o ".amazonaws.com"

\* the value the __main__ guard compares BASE_PATH with
PLACEHOLDER_PATH == "/path/to/your/Listening_Test"
\* the value BASE_PATH is set to in both scripts
CONFIGURED_PATH == "/Users/vishwas/Desktop/Github/Listening_Test"

GENDERS == << <<"M","a","l","e">>, <<"F","e","m","a","l","e">> >>
STYLES == << <<"r","e","a","d">>, <<"c","o","n","v">> >>
MG_COMBINATIONS ==
  << <<"M","G","1","_","M","G","2">>, <<"M","G","1","_","M","G","3">>,
     <<"M","G","1","_","M","G","4">>, <<"M","G","2","_","M","G","3">>,
     <<"M","G","2","_","M","G","4">>, <<"M","G","3","_","M","G","4">> >>

AWS_GENDERS == << <<"M","a","l","e">>, <<"F","e","m","a","l","e">> >>
AWS_STYLES == << <<"r","e","a","d">>, <<"c","o","n","v">> >>
AWS_MG_COMBINATIONS ==
  << <<"M","G","1","_","M","G","2">>, <<"M","G","1","_","M","G","3">>,
     <<"M","G","1","_","M","G","4">>, <<"M","G","2","_","M","G","3">>,
     <<"M","G","2","_","M","G","4">>, <<"M","G","3","_","M","G","4">> >>

\* the glob patterns of get_audio_files, in the order the code tries them
WAV == <<"*", ".", "w", "a", "v">>
MP3 == <<"*", ".", "m", "p", "3">>
Extensions(s) == IF s = "aws" THEN <<WAV, MP3>> ELSE <<WAV>>

CONFIG_JSON == <<"c","o","n","f","i","g",".","j","s","o","n">>

\* ------------------------------------------------- generate_trial_folders
RECURSIVE ForCombo(_, _, _, _, _)
\* for mg_combo in combos: trials.append(f"{gender}_{style}_{mg_combo}")
ForCombo(trials, gender, style, combos, k) ==
  IF k > Len(combos) THEN trials
  ELSE ForCombo(Append(trials, gender \o <<"_">> \o style \o <<"_">> \o combos[k]),
                gender, style, combos, k + 1)

RECURSIVE ForStyle(_, _, _, _, _)
\* for style in styles: ...
ForStyle(trials, gender, styles, combos, k) ==
  IF k > Len(styles) THEN trials
  ELSE ForStyle(ForCombo(trials, gender, styles[k], combos, 1),
                gender, styles, combos, k + 1)

RECURSIVE ForGender(_, _, _, _, _)
\* for gender in genders: ...
ForGender(trials, genders, styles, combos, k) ==
  IF k > Len(genders) THEN trials
  ELSE ForGender(ForStyle(trials, genders[k], styles, combos, 1),
                 genders, styles, combos, k + 1)

RECURSIVE StyleOuter(_, _, _, _, _)
\* the loops with style outermost and gender inside it
StyleOuter(trials, genders, styles, combos, k) ==
  IF k > Len(styles) THEN trials
  ELSE StyleOuter(
         ForCombo(ForCombo(trials, genders[1], styles[k], combos, 1),
                  genders[2], styles[k], combos, 1),
         genders, styles, combos, k + 1)

TrialFoldersStyleFirst(s) ==
  IF s = "aws" THEN StyleOuter(<<>>, AWS_GENDERS, AWS_STYLES, AWS_MG_COMBINATIONS, 1)
  ELSE StyleOuter(<<>>, GENDERS, STYLES, MG_COMBINATIONS, 1)

generate_trial_folders(s) ==
  IF s = "aws" THEN ForGender(<<>>, AWS_GENDERS, AWS_STYLES, AWS_MG_COMBINATIONS, 1)
  ELSE ForGender(<<>>, GENDERS, STYLES, MG_COMBINATIONS, 1)

\* ------------------------------------------------------------------- state
VARIABLES
  script,            \* which of the two scripts is run: "github" or "aws"
  BASE_PATH,         \* the BASE_PATH setting the script starts with
  folders,           \* disk: trial folder name -> names of its files other than config.json
  configs,           \* disk: trial folder name -> content of its config.json
  trials_list_json,  \* disk: content of BASE_PATH/trials_list.json
  pc,                \* "main", "configs" (generate_all_configs), "list" (generate_trials_list)
  status,            \* "running", "exit0", "exit1", "uncaught" (an exception left main)
  i,                 \* position of the for loop over trial_folders
  trial_folders,     \* local: result of generate_trial_folders()
  trial_name,        \* local: the loop variable
  audio_files,       \* local: result of the last get_audio_files call
  summary,           \* local of generate_all_configs
  trials_list,       \* local of generate_trials_list
  stdout,            \* lines printed by the current run
  listed,            \* paths the current run has called exists() (and glob) on
  opened,            \* open(path, 'w') calls of the current run: <<result, path>>,
                     \* "write" when the file was opened (and truncated)
  run,               \* number of the current run
  configs0,          \* configs as the current run found it
  list0              \* trials_list_json as the current run found it

vars == << script, BASE_PATH, folders, configs, trials_list_json, pc, status, i,
           trial_folders, trial_name, audio_files, summary, trials_list, stdout,
           listed, opened, run, configs0, list0 >>

disk == << folders, configs, trials_list_json >>
settings == << script, BASE_PATH >>
snapshot == << run, configs0, list0 >>

\* file contents
NoFile == [state |-> "absent"]
Truncated == [state |-> "truncated"]
Dumped(data) == [state |-> "written", data |-> data]

\* ------------------------------------------------------ the modelled trees
A_WAV == <<"a", ".", "w", "a", "v">>
B_WAV == <<"b", ".", "w", "a", "v">>
A_MP3 == <<"a", ".", "m", "p", "3">>
OLD_WAV == <<"o", "l", "d", ".", "w", "a", "v">>
FileNames == {A_WAV, B_WAV, A_MP3}
FolderContents == {S \in SUBSET FileNames : Cardinality(S) <= MaxFiles}

\* the trial folders that may exist: the first trial, the first Female trial
\* (right after the last Male one) and the last trial
CandidateFolders ==
  { <<"M","a","l","e","_","r","e","a","d","_","M","G","1","_","M","G","2">>,
    <<"F","e","m","a","l","e","_","r","e","a","d","_","M","G","1","_","M","G","2">>,
    <<"F","e","m","a","l","e","_","c","o","n","v","_","M","G","3","_","M","G","4">> }

\* ---------------------------------------------------------- get_audio_files
TrialPath(t) == BASE_PATH \o "/" \o ToStr(t)

\* names in the directory of trial t
ListDir(t) == folders[t] \cup (IF configs[t] # NoFile THEN {CONFIG_JSON} ELSE {})

\* folder.glob(pattern), as the set of names it yields
Glob(t, pattern) == {n \in ListDir(t) : FnMatch(n, pattern)}

RECURSIVE ForExt(_, _, _, _)
\* for ext in exts: for file in sorted(folder.glob(ext)): audio_files.append(file.name)
ForExt(acc, t, exts, k) ==
  IF k > Len(exts) THEN acc
  ELSE ForExt(acc \o sorted(Glob(t, exts[k])), t, exts, k + 1)

\* one sorted() over the files of all extensions together
GetAudioFilesMerged(s, t) ==
  IF t \notin DOMAIN folders THEN <<>>
  ELSE sorted(UNION {Glob(t, Extensions(s)[k]) : k \in 1..Len(Extensions(s))})

get_audio_files(s, t) ==
  IF t \notin DOMAIN folders THEN <<>> ELSE ForExt(<<>>, t, Extensions(s), 1)

\* what get_audio_files prints
GetAudioFilesPrints(t) ==
  IF t \notin DOMAIN folders
  THEN << "Warning: Folder " \o TrialPath(t) \o " does not exist!" >>
  ELSE <<>>

\* -------------------------------------------------------- create_config_json
UrlBase(s) ==
  IF s = "aws" THEN S3_BASE_URL
  ELSE "https://raw.githubusercontent.com/" \o GITHUB_USER \o "/" \o GITHUB_REPO
         \o "/" \o GITHUB_BRANCH

create_config_json(s, t, files) ==
  [ trialId |-> t,
    audioFiles |->
      [ k \in 1..Len(files) |->
          [ circle |-> (k - 1) + 1,
            filename |-> files[k],
            url |-> UrlBase(s) \o "/" \o ToStr(t) \o "/" \o ToStr(files[k]) ] ] ]

\* one entry of trials_list
TrialEntry(t, files) ==
  [ id |-> t, name |-> replace(t, "_", " "), numFiles |-> Len(files) ]

\* --------------------------------------------------------------- __main__
RULE == "============================================================"

\* a guard that never fires
NeverPlaceholder(path) == FALSE

\* the guard of __main__ on BASE_PATH
IsPlaceholder(path) == path = PLACEHOLDER_PATH

Banner(s) ==
  << IF s = "aws" THEN "Voice Perception Test - S3 Config Generator"
     ELSE "Voice Perception Test - Config Generator",
     RULE \o "\n" >>

PlaceholderError(s) ==
  << IF s = "aws" THEN "ERROR: Please update BASE_PATH in the script!"
     ELSE "ERROR: Please update BASE_PATH in the script to point to your local Listening_Test folder!",
     "Example: BASE_PATH = '/Users/yourname/Documents/Listening_Test'" >>

\* the two warnings of the S3 script; they do not stop the run
DefaultWarnings(s) ==
  IF s # "aws" THEN <<>>
  ELSE (IF S3_BUCKET_NAME = "listening-test-audio-files"
        THEN << "WARNING: Using default bucket name 'listening-test-audio-files'",
                "Make sure this matches your actual S3 bucket name!\n" >>
        ELSE <<>>)
       \o
       (IF S3_REGION = "us-west-2"
        THEN << "WARNING: Using default region 'us-west-2'",
                "Make sure this matches your S3 bucket region!\n" >>
        ELSE <<>>)

\* what generate_all_configs prints before its loop
ConfigsHeader(s, n) ==
  IF s = "aws"
  THEN << "Generating S3-based config files for " \o ToString(n) \o " trials...\n",
          "S3 Bucket: " \o S3_BUCKET_NAME,
          "S3 Region: " \o S3_REGION,
          "Base URL: " \o S3_BASE_URL \o "\n" >>
  ELSE << "Generating config files for " \o ToString(n) \o " trials...\n" >>

\* BASE_PATH is the placeholder: print the instructions and exit(1)
MainAbort ==
  /\ pc = "main" /\ status = "running"
  /\ IsPlaceholder(BASE_PATH)
  /\ stdout' = stdout \o Banner(script) \o PlaceholderError(script)
  /\ status' = "exit1"
  /\ UNCHANGED << settings, disk, snapshot, pc, i, trial_folders, trial_name,
                  audio_files, summary, trials_list, listed, opened >>

\* otherwise main calls generate_all_configs, which runs up to its loop
MainStart ==
  /\ pc = "main" /\ status = "running"
  /\ ~IsPlaceholder(BASE_PATH)
  /\ trial_folders' = generate_trial_folders(script)
  /\ stdout' = stdout \o Banner(script) \o DefaultWarnings(script)
                 \o ConfigsHeader(script, Len(trial_folders'))
  /\ summary' = <<>>
  /\ i' = 1
  /\ pc' = "configs"
  /\ UNCHANGED << settings, disk, snapshot, status, trial_name, audio_files,
                  trials_list, listed, opened >>

\* ------------------------------------------------------ generate_all_configs
ConfigPath(t) == TrialPath(t) \o "/config.json"

\* the path get_audio_files looks at for trial t
ListingCalls(t) == {TrialPath(t)}

\* break instead of continue
ConfigsSkipBreaks ==
  /\ pc = "configs" /\ status = "running"
  /\ i <= Len(trial_folders)
  /\ LET t == trial_folders[i]
         files == get_audio_files(script, t)
     IN  /\ files = <<>>
         /\ trial_name' = t
         /\ audio_files' = files
         /\ listed' = listed \cup ListingCalls(t)
         /\ stdout' = stdout \o GetAudioFilesPrints(t)
                        \o << "Skipped " \o ToStr(t) \o " (no audio files found)" >>
         /\ i' = Len(trial_folders) + 1
  /\ UNCHANGED << settings, disk, snapshot, pc, status, trial_folders, summary,
                  trials_list, opened >>

\* no skip: an existing folder without audio files gets an empty config.json
ConfigsSkipWritesEmpty ==
  /\ pc = "configs" /\ status = "running"
  /\ i <= Len(trial_folders)
  /\ LET t == trial_folders[i]
         files == get_audio_files(script, t)
     IN  /\ files = <<>>
         /\ trial_name' = t
         /\ audio_files' = files
         /\ listed' = listed \cup ListingCalls(t)
         /\ IF t \in DOMAIN folders
            THEN /\ configs' = [configs EXCEPT
                                  ![t] = Dumped(create_config_json(script, t, files))]
                 /\ opened' = opened \cup {<<"write", TrialPath(t) \o "/config.json">>}
                 /\ stdout' = stdout \o << "Created config.json for " \o ToStr(t) >>
            ELSE /\ UNCHANGED << configs, opened >>
                 /\ stdout' = stdout \o GetAudioFilesPrints(t)
                        \o << "Skipped " \o ToStr(t) \o " (no audio files found)" >>
         /\ i' = i + 1
  /\ UNCHANGED << settings, folders, trials_list_json, snapshot, pc, status,
                  trial_folders, summary, trials_list >>

\* one iteration that finds no audio file: continue
ConfigsSkip ==
  /\ pc = "configs" /\ status = "running"
  /\ i <= Len(trial_folders)
  /\ LET t == trial_folders[i]
         files == get_audio_files(script, t)
     IN  /\ files = <<>>
         /\ trial_name' = t
         /\ audio_files' = files
         /\ listed' = listed \cup ListingCalls(t)
         /\ stdout' = stdout \o GetAudioFilesPrints(t)
                        \o << "Skipped " \o ToStr(t) \o " (no audio files found)" >>
         /\ i' = i + 1
  /\ UNCHANGED << settings, disk, snapshot, pc, status, trial_folders, summary,
                  trials_list, opened >>

\* the outcomes of open(path, 'w') followed by json.dump
WriteOutcomes == {"ok", "open_failed", "write_failed"}

\* save_config_file inside try/except: a failed write is skipped over
ConfigsSaveSwallows(outcome) ==
  /\ pc = "configs" /\ status = "running"
  /\ i <= Len(trial_folders)
  /\ LET t == trial_folders[i]
         files == get_audio_files(script, t)
         config_data == create_config_json(script, t, files)
     IN  /\ files # <<>>
         /\ trial_name' = t
         /\ audio_files' = files
         /\ listed' = listed \cup ListingCalls(t)
         /\ i' = i + 1
         /\ CASE outcome = "ok" ->
                   /\ configs' = [configs EXCEPT ![t] = Dumped(config_data)]
                   /\ opened' = opened \cup {<<"write", ConfigPath(t)>>}
                   /\ stdout' = stdout \o << "Created config.json for " \o ToStr(t) >>
                   /\ summary' = Append(summary, [trial |-> t, num_files |-> Len(files)])
              [] outcome = "open_failed" ->
                   /\ opened' = opened \cup {<<"open_failed", ConfigPath(t)>>}
                   /\ UNCHANGED << configs, stdout, summary >>
              [] outcome = "write_failed" ->
                   /\ configs' = [configs EXCEPT ![t] = Truncated]
                   /\ opened' = opened \cup {<<"write", ConfigPath(t)>>}
                   /\ UNCHANGED << stdout, summary >>
  /\ UNCHANGED << settings, folders, trials_list_json, snapshot, pc, status,
                  trial_folders, trials_list >>

\* one iteration that finds audio files: create_config_json, save_config_file
ConfigsSave(outcome) ==
  /\ pc = "configs" /\ status = "running"
  /\ i <= Len(trial_folders)
  /\ LET t == trial_folders[i]
         files == get_audio_files(script, t)
         config_data == create_config_json(script, t, files)
     IN  /\ files # <<>>
         /\ trial_name' = t
         /\ audio_files' = files
         /\ listed' = listed \cup ListingCalls(t)
         /\ CASE outcome = "ok" ->
                   /\ configs' = [configs EXCEPT ![t] = Dumped(config_data)]
                   /\ opened' = opened \cup {<<"write", ConfigPath(t)>>}
                   /\ stdout' = stdout \o << "Created config.json for " \o ToStr(t) >>
                   /\ summary' = Append(summary, [trial |-> t, num_files |-> Len(files)])
                   /\ i' = i + 1
                   /\ UNCHANGED status
              [] outcome = "open_failed" ->
                   /\ opened' = opened \cup {<<"open_failed", ConfigPath(t)>>}
                   /\ status' = "uncaught"
                   /\ UNCHANGED << configs, stdout, summary, i >>
              [] outcome = "write_failed" ->
                   /\ configs' = [configs EXCEPT ![t] = Truncated]
                   /\ opened' = opened \cup {<<"write", ConfigPath(t)>>}
                   /\ status' = "uncaught"
                   /\ UNCHANGED << stdout, summary, i >>
  /\ UNCHANGED << settings, folders, trials_list_json, snapshot, pc, trial_folders,
                  trials_list >>

SummaryLines(items) ==
  [k \in 1..Len(items) |->
     ToStr(items[k].trial) \o ": " \o ToString(items[k].num_files) \o " audio files"]

\* the loop is over: print the summary, return, and main calls
\* generate_trials_list, which runs up to its loop
ConfigsReturn ==
  /\ pc = "configs" /\ status = "running"
  /\ i > Len(trial_folders)
  /\ stdout' = stdout \o << "\n" \o RULE, "SUMMARY", RULE >> \o SummaryLines(summary)
                 \o << "\nTotal trials processed: " \o ToString(Len(summary)), RULE >>
  /\ trial_folders' = generate_trial_folders(script)
  /\ trials_list' = <<>>
  /\ i' = 1
  /\ pc' = "list"
  /\ UNCHANGED << settings, disk, snapshot, status, trial_name, audio_files,
                  summary, listed, opened >>

\* ------------------------------------------------------ generate_trials_list
\* the loop without its "if audio_files:"
ListIterNoFilter ==
  /\ pc = "list" /\ status = "running"
  /\ i <= Len(trial_folders)
  /\ LET t == trial_folders[i]
         files == get_audio_files(script, t)
     IN  /\ trial_name' = t
         /\ audio_files' = files
         /\ listed' = listed \cup ListingCalls(t)
         /\ stdout' = stdout \o GetAudioFilesPrints(t)
         /\ trials_list' = Append(trials_list, TrialEntry(t, files))
         /\ i' = i + 1
  /\ UNCHANGED << settings, disk, snapshot, pc, status, trial_folders, summary,
                  opened >>

\* one iteration: list the folder, append an entry when it has audio files
ListIter ==
  /\ pc = "list" /\ status = "running"
  /\ i <= Len(trial_folders)
  /\ LET t == trial_folders[i]
         files == get_audio_files(script, t)
     IN  /\ trial_name' = t
         /\ audio_files' = files
         /\ listed' = listed \cup ListingCalls(t)
         /\ stdout' = stdout \o GetAudioFilesPrints(t)
         /\ trials_list' = IF files # <<>>
                           THEN Append(trials_list, TrialEntry(t, files))
                           ELSE trials_list
         /\ i' = i + 1
  /\ UNCHANGED << settings, disk, snapshot, pc, status, trial_folders, summary,
                  opened >>

TrialsListPath == BASE_PATH \o "/trials_list.json"

ClosingLines(s) ==
  IF s = "aws"
  THEN << "\n" \o RULE, "NEXT STEPS:", RULE,
          "1. Upload all trial folders (with new config.json) to S3",
          "2. Upload trials_list.json to S3",
          "3. Make sure bucket policy allows public read access",
          "4. Test loading audio in your web app", RULE >>
  ELSE << "\nAll done! Upload your folders (with config.json files) to GitHub." >>

\* the loop is over: write trials_list.json, return, and main ends
ListSave(outcome) ==
  /\ pc = "list" /\ status = "running"
  /\ i > Len(trial_folders)
  /\ CASE outcome = "ok" ->
            /\ trials_list_json' = Dumped([trials |-> trials_list])
            /\ opened' = opened \cup {<<"write", TrialsListPath>>}
            /\ stdout' = stdout
                 \o << "\nCreated trials_list.json with " \o ToString(Len(trials_list))
                         \o " trials" >>
                 \o ClosingLines(script)
            /\ status' = "exit0"
       [] outcome = "open_failed" ->
            /\ opened' = opened \cup {<<"open_failed", TrialsListPath>>}
            /\ status' = "uncaught"
            /\ UNCHANGED << trials_list_json, stdout >>
       [] outcome = "write_failed" ->
            /\ trials_list_json' = Truncated
            /\ opened' = opened \cup {<<"write", TrialsListPath>>}
            /\ status' = "uncaught"
            /\ UNCHANGED stdout
  /\ UNCHANGED << settings, folders, configs, snapshot, pc, i, trial_folders,
                  trial_name, audio_files, summary, trials_list, listed >>

\* ------------------------------------------------------------- environment
\* the user starts the script again after a run that ended normally
Rerun ==
  /\ status = "exit0"
  /\ run < MaxRuns
  /\ run' = run + 1
  /\ configs0' = configs
  /\ list0' = trials_list_json
  /\ pc' = "main"
  /\ status' = "running"
  /\ i' = 0
  /\ trial_folders' = <<>>
  /\ trial_name' = <<>>
  /\ audio_files' = <<>>
  /\ summary' = <<>>
  /\ trials_list' = <<>>
  /\ stdout' = <<>>
  /\ listed' = {}
  /\ opened' = {}
  /\ UNCHANGED << settings, disk >>

\* what an earlier run left in a tree whose folders each held old.wav
PriorConfig(s, t) == Dumped(create_config_json(s, t, <<OLD_WAV>>))

PriorList(s, D) ==
  LET kept == SelectSeq(generate_trial_folders(s), LAMBDA t : t \in D)
  IN  Dumped([trials |-> [k \in 1..Len(kept) |-> TrialEntry(kept[k], <<OLD_WAV>>)]])

Init ==
  /\ script \in {"github", "aws"}
  /\ BASE_PATH \in {PLACEHOLDER_PATH, CONFIGURED_PATH}
  /\ \E D \in SUBSET CandidateFolders :
       /\ Cardinality(D) <= MaxFolders
       /\ folders \in [D -> FolderContents]
       /\ \E prior \in BOOLEAN :
            /\ configs = [t \in D |-> IF prior THEN PriorConfig(script, t) ELSE NoFile]
            /\ trials_list_json = IF prior THEN PriorList(script, D) ELSE NoFile
  /\ configs0 = configs
  /\ list0 = trials_list_json
  /\ pc = "main"
  /\ status = "running"
  /\ i = 0
  /\ trial_folders = <<>>
  /\ trial_name = <<>>
  /\ audio_files = <<>>
  /\ summary = <<>>
  /\ trials_list = <<>>
  /\ stdout = <<>>
  /\ listed = {}
  /\ opened = {}
  /\ run = 1

Next ==
  \/ MainAbort
  \/ MainStart
  \/ ConfigsSkip
  \/ \E outcome \in WriteOutcomes : ConfigsSave(outcome)
  \/ ConfigsReturn
  \/ ListIter
  \/ \E outcome \in WriteOutcomes : ListSave(outcome)
  \/ Rerun

Spec == Init /\ [][Next]_vars

\* ===================================================================
\* Properties
\* ===================================================================
\* The vocabulary of trial identifiers and the order the design gives them,
\* written out independently of the generator.
Male == <<"M","a","l","e">>
Female == <<"F","e","m","a","l","e">>
Read == <<"r","e","a","d">>
Conv == <<"c","o","n","v">>
Pairs ==
  << <<"M","G","1","_","M","G","2">>, <<"M","G","1","_","M","G","3">>,
     <<"M","G","1","_","M","G","4">>, <<"M","G","2","_","M","G","3">>,
     <<"M","G","2","_","M","G","4">>, <<"M","G","3","_","M","G","4">> >>

\* gender outermost, then style, then pair
ExpectedTrials ==
  [k \in 1..24 |->
     (IF k <= 12 THEN Male ELSE Female) \o <<"_">>
       \o (IF ((k - 1) \div 6) % 2 = 0 THEN Read ELSE Conv) \o <<"_">>
       \o Pairs[((k - 1) % 6) + 1]]

\* the identifiers as text
ExpectedNames == [k \in 1..24 |-> ToStr(ExpectedTrials[k])]

CrossProduct ==
  { g \o <<"_">> \o st \o <<"_">> \o Pairs[m] :
      g \in {Male, Female}, st \in {Read, Conv}, m \in 1..6 }

IsWav(n) == Len(n) >= 4 /\ SubSeq(n, Len(n) - 3, Len(n)) = <<".", "w", "a", "v">>
IsMp3(n) == Len(n) >= 4 /\ SubSeq(n, Len(n) - 3, Len(n)) = <<".", "m", "p", "3">>
Accepted(n) == IsWav(n) \/ (script = "aws" /\ IsMp3(n))

\* the audio files of trial t on disk (none when the folder is missing)
Matching(t) == IF t \in DOMAIN folders THEN {n \in folders[t] : Accepted(n)} ELSE {}

Range(f) == {f[k] : k \in DOMAIN f}
Wrote(path) == <<"write", path>> \in opened
SummaryTrials == {summary[k].trial : k \in DOMAIN summary}
IndexIds ==
  IF trials_list_json.state = "written"
  THEN {trials_list_json.data.trials[k].id : k \in DOMAIN trials_list_json.data.trials}
  ELSE {}

\* C8: generate_trial_folders returns the 24 identifiers of the cross product
\* Male/Female x read/conv x six MG pairs, without duplicates, gender
\* outermost, then style, then pair; the same on every call, in both scripts.
\* (The value is compared at every step; its size and its set of elements
\* right after each call, when the loop is at its first position.)
C8_TrialIdentifiers ==
  /\ pc \in {"configs", "list"} => trial_folders = ExpectedTrials
  /\ (pc \in {"configs", "list"} /\ i = 1) =>
       /\ Len(trial_folders) = 24
       /\ Cardinality(Range(trial_folders)) = 24
       /\ Range(trial_folders) = CrossProduct

C8_Witness ==
  /\ script = "aws" /\ pc = "list" /\ run = 2
  /\ trial_folders[13] = Female \o <<"_">> \o Read \o <<"_">> \o Pairs[1]

\* the trials with at least one audio file on disk, by position
WithAudio == {k \in 1..24 : Matching(ExpectedTrials[k]) # {}}
\* the paths of the config.json files written in the current run
ConfigsWritten ==
  {c[2] : c \in {d \in opened : d[1] = "write"}} \ {BASE_PATH \o "/trials_list.json"}

\* C1: in a run that ends normally, for each of the 24 trials: config.json is
\* written, the trial is in the summary, and the trial is in trials_list.json,
\* each if and only if the trial folder holds at least one audio file.
\* (Stated where generate_all_configs has returned and where the run has ended.)
C1_ManifestIffAudio ==
  /\ (status = "running" /\ pc = "list" /\ i = 1) \/ status = "exit0" =>
       /\ ConfigsWritten
            = {BASE_PATH \o "/" \o ExpectedNames[k] \o "/config.json" : k \in WithAudio}
       /\ SummaryTrials = {ExpectedTrials[k] : k \in WithAudio}
  /\ status = "exit0" => IndexIds = {ExpectedTrials[k] : k \in WithAudio}

C1_Witness ==
  /\ status = "exit0"
  /\ \E t \in DOMAIN folders :
       Matching(t) # {} /\ Wrote(ConfigPath(t)) /\ t \in IndexIds
  /\ \E t \in DOMAIN folders :
       folders[t] # {} /\ Matching(t) = {} /\ ~Wrote(ConfigPath(t)) /\ t \notin IndexIds

\* C2: with BASE_PATH left at its placeholder the script exits with status 1
\* after printing the instruction, before any filesystem call: no folder is
\* listed, no config.json and no trials_list.json is written.
C2_PlaceholderAborts ==
  BASE_PATH = "/path/to/your/Listening_Test" =>
    /\ listed = {} /\ opened = {}
    /\ configs = configs0 /\ trials_list_json = list0
    /\ pc = "main"
    /\ status \in {"running", "exit1"}
    /\ status = "exit1" =>
         \E k \in DOMAIN stdout :
           stdout[k] = "Example: BASE_PATH = '/Users/yourname/Documents/Listening_Test'"

C2_Witness ==
  /\ BASE_PATH = "/path/to/your/Listening_Test"
  /\ status = "exit1"
  /\ \E t \in DOMAIN folders : Matching(t) # {}

\* the missing trial folders, by position
Missing == {k \in 1..24 : ExpectedTrials[k] \notin DOMAIN folders}

\* C3: a missing trial folder gives an empty listing and a warning, raises
\* nothing, and the loop goes on with the next trial: the trial is left out of
\* the summary and of trials_list.json, and every trial with audio files is
\* still processed.
C3_MissingFolderSkipped ==
  /\ (trial_name # <<>> /\ trial_name \notin DOMAIN folders) =>
       /\ audio_files = <<>>
       /\ trial_name \notin SummaryTrials
  /\ (status = "running" /\ pc \in {"configs", "list"} /\ i > 1) =>
       /\ i <= 25
       /\ trial_name = ExpectedTrials[i - 1]
       /\ trial_name \notin DOMAIN folders =>
            \* the warning is the line just printed (before "Skipped ..." in
            \* generate_all_configs), and nothing was opened in the folder
            /\ stdout[Len(stdout) - (IF pc = "configs" THEN 1 ELSE 0)]
                 = "Warning: Folder " \o BASE_PATH \o "/" \o ExpectedNames[i - 1]
                     \o " does not exist!"
            /\ \A c \in opened :
                 c[2] # BASE_PATH \o "/" \o ExpectedNames[i - 1] \o "/config.json"
  /\ status = "uncaught" =>
       \/ pc = "configs" /\ Matching(trial_name) # {}
       \/ pc = "list" /\ i > 24
  /\ (status = "running" /\ pc = "list" /\ i = 1) \/ status = "exit0" =>
       /\ ConfigsWritten
            \cap {BASE_PATH \o "/" \o ExpectedNames[k] \o "/config.json" : k \in Missing} = {}
       /\ SummaryTrials \cap {ExpectedTrials[k] : k \in Missing} = {}
       /\ {ExpectedTrials[k] : k \in WithAudio} \subseteq SummaryTrials
  /\ status = "exit0" =>
       /\ {"Warning: Folder " \o BASE_PATH \o "/" \o ExpectedNames[k] \o " does not exist!" :
             k \in Missing} \subseteq Range(stdout)
       /\ IndexIds \cap {ExpectedTrials[k] : k \in Missing} = {}
       /\ {ExpectedTrials[k] : k \in WithAudio} \subseteq IndexIds

C3_Witness ==
  /\ status = "exit0"
  /\ ExpectedTrials[1] \notin DOMAIN folders
  /\ ExpectedTrials[13] \in IndexIds
  /\ ExpectedTrials[24] \in SummaryTrials

\* C4 (as claimed): every config.json written in the run has N entries with
\* circle 1..N, the entry with circle k holding the k-th file name in
\* ascending lexicographic order of the audio files of the folder, and url
\* equal to the base followed by /<trialId>/<filename>.
C4_CirclesFollowLexicographicOrder ==
  \A t \in DOMAIN configs :
    (Wrote(ConfigPath(t)) /\ configs[t].state = "written") =>
      LET a == configs[t].data.audioFiles IN
        /\ Len(a) = Cardinality(Matching(t))
        /\ Len(a) >= 1
        /\ {a[k].filename : k \in DOMAIN a} = Matching(t)
        /\ \A k \in DOMAIN a :
             /\ a[k].circle = k
             /\ a[k].url = UrlBase(script) \o "/" \o ToStr(t) \o "/" \o ToStr(a[k].filename)
        /\ \A k, m \in DOMAIN a : k < m => StrLess(a[k].filename, a[m].filename)

C6_Idempotent ==
  /\ (status = "exit0" /\ run >= 2) =>
       /\ configs = configs0
       /\ trials_list_json = list0
  /\ CONFIG_JSON \notin Range(audio_files)

C6_Witness ==
  /\ status = "exit0" /\ run = 2
  /\ \E t \in DOMAIN configs :
       /\ Wrote(ConfigPath(t))
       /\ configs[t].state = "written"
       /\ Len(configs[t].data.audioFiles) = 2
  /\ Wrote(TrialsListPath)

\* position of an identifier in generation order
Position(t) == CHOOSE k \in 1..24 : ExpectedTrials[k] = t

\* C7: the trials of trials_list.json follow generation order without
\* repetition; each entry has the trial identifier as id, the identifier with
\* every underscore turned into a space as name, and the number of audio files
\* of the trial (the length of audioFiles in its config.json) as numFiles.
C7_IndexEntries ==
  (status = "exit0") =>
    LET e == trials_list_json.data.trials IN
      /\ \A k \in DOMAIN e : e[k].id \in Range(ExpectedTrials)
      /\ \A k, m \in DOMAIN e : k < m => Position(e[k].id) < Position(e[m].id)
      /\ \A k \in DOMAIN e :
           /\ Len(e[k].name) = Len(e[k].id)
           /\ \A c \in 1..Len(e[k].id) :
                e[k].name[c] = IF e[k].id[c] = "_" THEN " " ELSE e[k].id[c]
           /\ e[k].numFiles = Cardinality(Matching(e[k].id))
           /\ e[k].numFiles = Len(configs[e[k].id].data.audioFiles)

C7_Witness ==
  /\ status = "exit0"
  /\ Len(trials_list_json.data.trials) = 2
  /\ trials_list_json.data.trials[1].name
       = <<"M","a","l","e"," ","r","e","a","d"," ","M","G","1"," ","M","G","2">>
  /\ trials_list_json.data.trials[2].numFiles = 2

C10_SkippedFoldersUntouched ==
  /\ \A t \in DOMAIN folders : Matching(t) = {} => configs[t] = configs0[t]
  /\ DOMAIN configs = DOMAIN folders
  /\ {c[2] : c \in opened}
       \subseteq
         {BASE_PATH \o "/trials_list.json"}
           \cup {BASE_PATH \o "/" \o ExpectedNames[k] \o "/config.json" :
                   k \in {m \in 1..24 : Matching(ExpectedTrials[m]) # {}}}

C10_Witness ==
  /\ status = "exit0"
  /\ \E t \in DOMAIN folders :
       /\ Matching(t) = {}
       /\ configs[t].state = "written"
       /\ t \notin IndexIds
       /\ IndexIds # {}

====
